---- MODULE Spec2Model ----
(***************************************************************************)
(* ClosestParameterNewton (src/src/closest_parameter_newton.rs): a damped  *)
(* Newton step whose result is mapped back into the knot domain of a       *)
(* curve, by wrap-around for a closed curve and by clamping for an open    *)
(* one.                                                                    *)
(*                                                                         *)
(* The parameter type P and the float type F are scalars.  They are        *)
(* modelled as exact rationals [n |-> numerator, d |-> denominator > 0]    *)
(* in lowest terms, so that the division in the Hessian inverse and the    *)
(* product with gamma are computed and not assumed.  Floating-point        *)
(* rounding, infinities and NaN are outside the model.                     *)
(*                                                                         *)
(* Option<T> is the empty sequence (None) or a one-element sequence        *)
(* (Some).  Result<T, Error> of the collaborators is modelled the same     *)
(* way: << >> is a failure, <<v>> is Ok(v).                                *)
(***************************************************************************)
EXTENDS Integers, Sequences, FiniteSets, TLC

VARIABLES solver, state, prev, ret, gamma_set, iter

vars == <<solver, state, prev, ret, gamma_set, iter>>

\* ---------------------------------------------------------------- bounds
MaxIter == 2
MaxGrad == 3

\* ------------------------------------------------------ scalar arithmetic
Abs(x) == IF x < 0 THEN -x ELSE x

RECURSIVE GCD(_, _)
GCD(a, b) == IF b = 0 THEN a ELSE GCD(b, a % b)

\* The scalar n/d (d # 0), in lowest terms with a positive denominator.
Rat(n, d) ==
    LET g == GCD(Abs(n), Abs(d))
        s == IF d < 0 THEN -1 ELSE 1
    IN  [n |-> (s * n) \div g, d |-> (s * d) \div g]

Int2Rat(i) == [n |-> i, d |-> 1]

RAdd(a, b) == Rat(a.n * b.d + b.n * a.d, a.d * b.d)
RSub(a, b) == Rat(a.n * b.d - b.n * a.d, a.d * b.d)
RMul(a, b) == Rat(a.n * b.n, a.d * b.d)
RLt(a, b) == a.n * b.d < b.n * a.d
RGt(a, b) == RLt(b, a)
RLe(a, b) == ~RLt(b, a)

None == << >>
Some(v) == <<v>>
IsSome(o) == Len(o) = 1
Unwrap(o) == o[1]

\* ArgminInv::inv of the Hessian: an error for a singular Hessian.  (The
\* step relies on inv to report the failure; a scalar division that yields
\* an infinity instead is outside the rational model.)
Inv(h) == IF h.n = 0 THEN None ELSE Some(Rat(h.d, h.n))

\* ArgminDot::dot: the inverse Hessian applied to the gradient.
Dot(hinv, grad) == RMul(hinv, grad)

\* scaled_sub that drops the factor: the full Newton step whatever gamma.
ScaledSub_IgnoresFactor(param, factor, other) == RSub(param, other)

\* ArgminScaledSub::scaled_sub: self - factor * other.
ScaledSub(param, factor, other) == RSub(param, RMul(factor, other))

\* ------------------------------------------------------------ the solver
\* ClosestParameterNewton::new: gamma defaults to 1.
new(domain, closed) ==
    [gamma |-> Int2Rat(1), knot_domain |-> domain, closed |-> closed]

\* The gamma test with < for <=: gamma = 0 is accepted.
GammaRejected_AcceptsZero(gamma) ==
    RLt(gamma, Int2Rat(0)) \/ RGt(gamma, Int2Rat(1))

\* The gamma test of with_gamma: TRUE when gamma is rejected.
GammaRejected(gamma) == RLe(gamma, Int2Rat(0)) \/ RGt(gamma, Int2Rat(1))

\* ClosestParameterNewton::with_gamma: Err(InvalidParameter) or Ok(self
\* with the new gamma).
with_gamma(self, gamma) ==
    IF GammaRejected(gamma)
    THEN [err |-> "InvalidParameter", value |-> None]
    ELSE [err |-> "", value |-> Some([self EXCEPT !.gamma = gamma])]

\* The domain constraint with the closed wrap above high reflecting at high
\* instead of re-entering at low.
Constrain_ReflectsAbove(self, new_param) ==
    LET low == self.knot_domain[1]
        high == self.knot_domain[2]
    IN  IF RLt(new_param, low)
        THEN IF self.closed
             THEN RSub(high, RSub(new_param, low))
             ELSE low
        ELSE IF RGt(new_param, high)
             THEN IF self.closed
                  THEN RSub(high, RSub(new_param, high))
                  ELSE high
             ELSE new_param

\* The domain constraint with the open clamps exchanged.
Constrain_ClampsToFarEnd(self, new_param) ==
    LET low == self.knot_domain[1]
        high == self.knot_domain[2]
    IN  IF RLt(new_param, low)
        THEN IF self.closed
             THEN RSub(high, RSub(new_param, low))
             ELSE high
        ELSE IF RGt(new_param, high)
             THEN IF self.closed
                  THEN RAdd(low, RSub(new_param, high))
                  ELSE low
             ELSE new_param

\* The domain constraint with <= for < and >= for >: the ends of the
\* domain count as outside.
Constrain_EndsOutside(self, new_param) ==
    LET low == self.knot_domain[1]
        high == self.knot_domain[2]
    IN  IF RLe(new_param, low)
        THEN IF self.closed
             THEN RSub(high, RSub(new_param, low))
             ELSE low
        ELSE IF RLe(high, new_param)
             THEN IF self.closed
                  THEN RAdd(low, RSub(new_param, high))
                  ELSE high
             ELSE new_param

\* The domain constraint of next_iter, applied to the damped candidate.
Constrain(self, new_param) ==
    LET low == self.knot_domain[1]
        high == self.knot_domain[2]
    IN  IF RLt(new_param, low)
        THEN IF self.closed
             THEN RSub(high, RSub(new_param, low))
             ELSE low
        ELSE IF RGt(new_param, high)
             THEN IF self.closed
                  THEN RAdd(low, RSub(new_param, high))
                  ELSE high
             ELSE new_param

\* What a call returns, with what it was called on and what it called:
\*   op        the operation
\*   self      the solver the call was made on
\*   arg       with_gamma's argument (Option)
\*   param     the parameter of the state next_iter was called on (Option)
\*   grad      the gradient next_iter obtained (Option)
\*   hessian   the Hessian next_iter obtained (Option)
\*   candidate the value next_iter fed into the domain constraint (Option)
\*   calls     the collaborator calls next_iter made, in order
\*   err       the error kind returned, "" for Ok
\*   value     the Ok value (Option): a solver or a parameter
\*   status    terminate's TerminationStatus
Blank(op, self) ==
    [op |-> op, self |-> self, arg |-> None, param |-> None, grad |-> None,
     hessian |-> None, candidate |-> None, calls |-> << >>, err |-> "",
     value |-> None, status |-> ""]

\* The step with the inversion failure swallowed: a Hessian that cannot be
\* inverted contributes a zero direction and the step goes on.
step_SwallowsInvError(self, st_param, g, h) ==
    LET r1 == [Blank("next_iter", self) EXCEPT
                  !.calls = <<"gradient">>, !.grad = g] IN
    IF ~IsSome(g)
    THEN [r1 EXCEPT !.err = "GradientError"]
    ELSE LET r2 == [r1 EXCEPT !.calls = <<"gradient", "hessian">>,
                              !.hessian = h] IN
    IF ~IsSome(h)
    THEN [r2 EXCEPT !.err = "HessianError"]
    ELSE LET hinv == Inv(Unwrap(h))
             dir == IF IsSome(hinv) THEN Dot(Unwrap(hinv), Unwrap(g))
                    ELSE Int2Rat(0)
             new_param == ScaledSub(Unwrap(st_param), self.gamma, dir)
         IN  [r2 EXCEPT !.calls = <<"gradient", "hessian", "inv", "dot",
                                    "scaled_sub">>,
                        !.candidate = Some(new_param),
                        !.value = Some(Constrain(self, new_param))]

\* next_iter from the gradient evaluation to the end (lines 85-106), on the
\* parameter taken out of the state.  g and h are what problem.gradient and
\* problem.hessian return at that parameter if they are called.
step(self, st_param, g, h) ==
    LET r1 == [Blank("next_iter", self) EXCEPT
                  !.calls = <<"gradient">>, !.grad = g] IN
    IF ~IsSome(g)
    THEN [r1 EXCEPT !.err = "GradientError"]
    ELSE LET r2 == [r1 EXCEPT !.calls = <<"gradient", "hessian">>,
                              !.hessian = h] IN
    IF ~IsSome(h)
    THEN [r2 EXCEPT !.err = "HessianError"]
    ELSE LET hinv == Inv(Unwrap(h))
             r3 == [r2 EXCEPT !.calls = <<"gradient", "hessian", "inv">>] IN
    IF ~IsSome(hinv)
    THEN [r3 EXCEPT !.err = "InversionError"]
    ELSE LET new_param == ScaledSub(Unwrap(st_param), self.gamma,
                                    Dot(Unwrap(hinv), Unwrap(g)))
         IN  [r3 EXCEPT !.calls = <<"gradient", "hessian", "inv", "dot",
                                    "scaled_sub">>,
                        !.candidate = Some(new_param),
                        !.value = Some(Constrain(self, new_param))]

\* next_iter with the parameter check dropped: a missing parameter is
\* replaced by the lower end of the domain.
next_iter_DefaultsParam(self, st_param, g, h) ==
    step(self, IF IsSome(st_param) THEN st_param
               ELSE Some(self.knot_domain[1]), g, h)

\* ClosestParameterNewton::next_iter on the state's parameter st_param.
next_iter(self, st_param, g, h) ==
    IF ~IsSome(st_param)
    THEN [Blank("next_iter", self) EXCEPT !.err = "NotInitialized"]
    ELSE step(self, st_param, g, h)

\* terminate that reports termination once the parameter stops moving.
terminate_OnConvergence(self, st_param) ==
    IF IsSome(st_param) /\ st_param = prev
    THEN "Terminated" ELSE "NotTerminated"

\* ClosestParameterNewton::terminate.
terminate(self, st_param) == "NotTerminated"

\* ----------------------------------------------------------------- inputs
Domains ==
    { <<Int2Rat(0), Int2Rat(10)>>, <<Int2Rat(2), Int2Rat(5)>>,
      <<Int2Rat(3), Int2Rat(3)>> }

InitialParams == {None} \cup {Some(Int2Rat(i)) : i \in {1, 4, 12}}

Gammas == {Rat(k, 2) : k \in -1 .. 3}

Gradients == {None} \cup {Some(Int2Rat(i)) : i \in -MaxGrad .. MaxGrad}

Hessians == {None} \cup {Some(Rat(k, 2)) : k \in {-2, 0, 1, 2}}

\* ------------------------------------------------------------ the machine
\* state: the IterState's param field.  prev: the parameter the last
\* successful step started from (history).  gamma_set: whether a with_gamma
\* call has succeeded (history).  iter: the number of next_iter calls.
Init ==
    /\ \E domain \in Domains, closed \in BOOLEAN :
          /\ solver = new(domain, closed)
          /\ ret = Blank("new", new(domain, closed))
    /\ state \in InitialParams
    /\ prev = None
    /\ gamma_set = FALSE
    /\ iter = 0

WithGamma ==
    \E gamma \in Gammas :
       LET r == with_gamma(solver, gamma) IN
       /\ ret' = [Blank("with_gamma", solver) EXCEPT
                     !.arg = Some(gamma), !.err = r.err, !.value = r.value]
       /\ solver' = IF r.err = "" THEN Unwrap(r.value) ELSE solver
       /\ gamma_set' = (gamma_set \/ r.err = "")
       /\ UNCHANGED <<state, prev, iter>>

NextIter ==
    \E g \in Gradients, h \in Hessians :
       LET r == next_iter(solver, state, g, h) IN
       /\ iter < MaxIter
       /\ iter' = iter + 1
       /\ ret' = [r EXCEPT !.param = state]
       /\ state' = r.value
       /\ prev' = IF r.err = "" THEN state ELSE prev
       /\ UNCHANGED <<solver, gamma_set>>

Terminate ==
    /\ ret' = [Blank("terminate", solver) EXCEPT
                  !.param = state, !.status = terminate(solver, state)]
    /\ UNCHANGED <<solver, state, prev, gamma_set, iter>>

Next == WithGamma \/ NextIter \/ Terminate

Spec == Init /\ [][Next]_vars

\* ------------------------------------------------------------ the claims
\* The formulas compare scalars over a common denominator, in integers.
Sc(x, D) == x.n * (D \div x.d)

\* The last call was a next_iter that returned Ok.
Stepped == ret.op = "next_iter" /\ ret.err = ""

Low == ret.self.knot_domain[1]
High == ret.self.knot_domain[2]
Cand == Unwrap(ret.candidate)
Value == Unwrap(ret.value)
CD == Low.d * High.d * Cand.d * Value.d

\* The Newton direction of the last step equals the integer k.
DirectionIs(k) ==
    /\ IsSome(ret.grad) /\ IsSome(ret.hessian)
    /\ Unwrap(ret.hessian).n # 0
    /\ Unwrap(ret.grad).n * Unwrap(ret.hessian).d
          = k * Unwrap(ret.hessian).n * Unwrap(ret.grad).d

\* The last step ran the scenario of the specification: domain (0, 10),
\* gamma 1, current parameter 1, Newton direction 3.
Scenario(closed) ==
    /\ Stepped
    /\ ret.self = new(<<Int2Rat(0), Int2Rat(10)>>, closed)
    /\ ret.param = Some(Int2Rat(1))
    /\ DirectionIs(3)

\* C1: whenever next_iter returns Ok, the parameter it returns (the state's
\* new parameter) lies in [low, high], for a closed and for an open domain.
C1_ResultInDomain ==
    Stepped =>
       /\ state = ret.value
       /\ Sc(Low, CD) <= Sc(Unwrap(state), CD)
       /\ Sc(Unwrap(state), CD) <= Sc(High, CD)

\* C2: closed domain, candidate c with low - (high - low) <= c < low: the
\* step returns high - (low - c), which lies in [low, high); in the scenario
\* (candidate -2) it returns 8.
C2_WrapBelow ==
    /\ (Stepped /\ ret.self.closed
          /\ Sc(Cand, CD) < Sc(Low, CD)
          /\ Sc(Low, CD) - (Sc(High, CD) - Sc(Low, CD)) <= Sc(Cand, CD))
       => /\ Sc(Value, CD) = Sc(High, CD) - (Sc(Low, CD) - Sc(Cand, CD))
          /\ Sc(Low, CD) <= Sc(Value, CD)
          /\ Sc(Value, CD) < Sc(High, CD)
    /\ Scenario(TRUE) => ret.value = Some(Int2Rat(8))

\* C3: closed domain of span S, candidate c = high + d with 0 < d < S: the
\* step returns low + (c - high), which lies in (low, high].
C3_WrapAbove ==
    (Stepped /\ ret.self.closed
       /\ Sc(Cand, CD) > Sc(High, CD)
       /\ Sc(Cand, CD) - Sc(High, CD) < Sc(High, CD) - Sc(Low, CD))
    => /\ Sc(Value, CD) = Sc(Low, CD) + (Sc(Cand, CD) - Sc(High, CD))
       /\ Sc(Low, CD) < Sc(Value, CD)
       /\ Sc(Value, CD) <= Sc(High, CD)

C3_Witness ==
    /\ Stepped /\ ret.self.closed
    /\ Sc(Cand, CD) > Sc(High, CD)
    /\ Sc(Cand, CD) - Sc(High, CD) < Sc(High, CD) - Sc(Low, CD)
    /\ state = ret.value

\* C4: open domain: the step returns low for every candidate below low and
\* high for every candidate above high, the domain constraint applied to
\* that result returns it unchanged, and in the scenario it returns 0.
C4_Clamp ==
    /\ (Stepped /\ ~ret.self.closed /\ Sc(Cand, CD) < Sc(Low, CD))
       => /\ Value = Low
          /\ Constrain(ret.self, Value) = Value
    /\ (Stepped /\ ~ret.self.closed /\ Sc(Cand, CD) > Sc(High, CD))
       => /\ Value = High
          /\ Constrain(ret.self, Value) = Value
    /\ Scenario(FALSE) => ret.value = Some(Int2Rat(0))

C4_Witness ==
    /\ Scenario(FALSE)
    /\ Sc(Cand, CD) < Sc(Low, CD)
    /\ state = Some(Int2Rat(0))

\* C5: a candidate c with low <= c <= high, the ends included, is returned
\* unchanged, for a closed and for an open domain.
C5_InsideUnchanged ==
    (Stepped /\ Sc(Low, CD) <= Sc(Cand, CD) /\ Sc(Cand, CD) <= Sc(High, CD))
    => /\ ret.value = ret.candidate
       /\ state = ret.candidate

C5_Witness ==
    /\ Stepped /\ ret.self.closed
    /\ Sc(Low, CD) < Sc(High, CD)
    /\ Cand = Low
    /\ state = Some(Low)

\* C6: with_gamma fails with InvalidParameter for gamma <= 0 and for
\* gamma > 1, and then the instance is as it was; for 0 < gamma <= 1 it
\* returns the instance with that gamma and the same domain and closed flag.
C6_WithGamma ==
    ret.op = "with_gamma" =>
       LET gamma == Unwrap(ret.arg) IN
       /\ (gamma.n <= 0 \/ gamma.n > gamma.d)
          => /\ ret.err = "InvalidParameter"
             /\ ret.value = None
             /\ solver = ret.self
       /\ (0 < gamma.n /\ gamma.n <= gamma.d)
          => /\ ret.err = ""
             /\ ret.value = Some(solver)
             /\ solver.gamma = gamma
             /\ solver.knot_domain = ret.self.knot_domain
             /\ solver.closed = ret.self.closed

C6_Witness ==
    /\ ret.op = "with_gamma"
    /\ ret.arg = Some(Int2Rat(0))
    /\ ret.err = "InvalidParameter"
    /\ gamma_set /\ solver.gamma = Rat(1, 2)

\* C7: a step in which the gradient evaluation, the Hessian evaluation or
\* the Hessian inversion (singular Hessian) failed returns that failure and
\* no parameter.
C7_FailurePropagates ==
    (/\ ret.op = "next_iter" /\ IsSome(ret.param)
     /\ \/ ~IsSome(ret.grad)
        \/ ~IsSome(ret.hessian)
        \/ Unwrap(ret.hessian).n = 0)
    => /\ ret.err \in {"GradientError", "HessianError", "InversionError"}
       /\ ret.value = None
       /\ ret.candidate = None
       /\ state = None

C7_Witness ==
    /\ ret.op = "next_iter" /\ IsSome(ret.param)
    /\ IsSome(ret.grad) /\ IsSome(ret.hessian)
    /\ Unwrap(ret.hessian).n = 0
    /\ ret.err = "InversionError"

\* C8: next_iter on a state that holds no parameter fails with
\* NotInitialized, evaluates neither the gradient nor the Hessian, and
\* returns no parameter.
C8_NotInitialized ==
    (ret.op = "next_iter" /\ ~IsSome(ret.param))
    => /\ ret.err = "NotInitialized"
       /\ ret.calls = << >>
       /\ ret.value = None
       /\ state = None

C8_Witness ==
    /\ ret.op = "next_iter" /\ ~IsSome(ret.param)
    /\ ret.err = "NotInitialized"

\* C9: terminate returns NotTerminated for every state and every instance,
\* also when successive parameters are equal.
C9_NeverTerminates ==
    ret.op = "terminate" => ret.status = "NotTerminated"

C9_Witness ==
    /\ ret.op = "terminate"
    /\ iter > 0
    /\ IsSome(state) /\ prev = state
    /\ ret.status = "NotTerminated"

\* C10: the value fed into the domain constraint is
\* currentParam - gamma * (gradient / Hessian) with the instance's gamma,
\* which is 1 while no with_gamma call has succeeded; next_iter leaves gamma,
\* the domain and the closed flag as they were.
C10_DampedCandidate ==
    /\ Stepped =>
          LET a == Cand
              p == Unwrap(ret.param)
              gm == ret.self.gamma
              g == Unwrap(ret.grad)
              h == Unwrap(ret.hessian)
          IN  a.n * p.d * gm.d * g.d * h.n
                 = a.d * (p.n * gm.d * g.d * h.n - p.d * gm.n * g.n * h.d)
    /\ ~gamma_set => solver.gamma = Int2Rat(1)
    /\ ret.op = "next_iter" => solver = ret.self

C10_Witness ==
    /\ Stepped
    /\ ret.self.gamma = Rat(1, 2)
    /\ Unwrap(ret.grad).n # 0
    /\ solver = ret.self

====
